---------------------------- MODULE Spec2Model ----------------------------
(***************************************************************************)
(* A model of flakers (src/src/lib.rs, src/src/main.rs): the parser of the *)
(* "Flake lock file updates:" notification and its Markdown rendering.     *)
(*                                                                         *)
(* A text (Rust &str) is a sequence of characters, each character a        *)
(* one-element string.  The characters outside ASCII that the program      *)
(* handles are written by their code point: "U+2022" is the bullet,        *)
(* "U+2192" the arrow of an Updated block, "U+27A1" "U+FE0F" the emoji of  *)
(* the rendered line and "U+00E9" a two-byte letter (e acute); "U+0060"   *)
(* is the ASCII grave accent of the Markdown code spans.                   *)
(*                                                                         *)
(* A nom parser is an operator from the input text to a result             *)
(* [ok, rest, val] (Ok((rest, val))) or [ok, err] (Err(nom::Err::Error)).  *)
(***************************************************************************)
EXTENDS Naturals, Sequences, FiniteSets

VARIABLES
    given,      \* how the input text was composed (the pieces it was drawn from)
    input,      \* main: the text read from stdin; unit runs: the text parsed
    pc,         \* the position of the run
    remaining,  \* main: the text not yet parsed
    entries,    \* main: the entries many0(parse_entry) has collected
    out,        \* main: the lines printed by the rendering loop
    flake,      \* the result of FlakeRef::parse_from on input
    short       \* the result of FlakeRef::sha on the parsed locator

vars == <<given, input, pc, remaining, entries, out, flake, short>>

---------------------------------------------------------------------------
(* Bounds of the model. *)

\* longest locator body drawn character by character
MaxBody == 4
\* longest commit drawn character by character
MaxCommit == 9
\* most blocks in a document
MaxBlocks == 3

---------------------------------------------------------------------------
(* Texts. *)

Ok(rest, val) == [ok |-> TRUE, rest |-> rest, val |-> val]

Err == [ok |-> FALSE, err |-> "Error"]

Unset == [ok |-> FALSE, err |-> "Unset"]

Drop(s, n) == SubSeq(s, n + 1, Len(s))

Take(s, n) == SubSeq(s, 1, n)

StartsWith(s, t) ==
    /\ Len(t) <= Len(s)
    /\ \A i \in 1..Len(t) : s[i] = t[i]

\* the number of bytes of a character in UTF-8
Utf8Len(c) ==
    IF c \in {"U+2022", "U+2192", "U+27A1", "U+FE0F"} THEN 3
    ELSE IF c = "U+00E9" THEN 2
    ELSE 1

RECURSIVE ByteLen(_)
ByteLen(s) == IF s = <<>> THEN 0 ELSE Utf8Len(Head(s)) + ByteLen(Tail(s))

\* s.matches(c).count()
Count(c, s) == Cardinality({i \in 1..Len(s) : s[i] = c})

\* the length of the longest prefix of s, from position i on, of characters in set
RECURSIVE SpanIn(_, _, _)
SpanIn(set, s, i) ==
    IF i <= Len(s) /\ s[i] \in set THEN 1 + SpanIn(set, s, i + 1) ELSE 0

\* the length of the longest prefix of s, from position i on, of characters not in set
RECURSIVE SpanNotIn(_, _, _)
SpanNotIn(set, s, i) ==
    IF i <= Len(s) /\ s[i] \notin set THEN 1 + SpanNotIn(set, s, i + 1) ELSE 0

\* the first position >= i at which t occurs in s, 0 when there is none
RECURSIVE Find(_, _, _)
Find(t, s, i) ==
    IF i + Len(t) - 1 > Len(s) THEN 0
    ELSE IF \A j \in 1..Len(t) : s[i + j - 1] = t[j] THEN i
    ELSE Find(t, s, i + 1)

---------------------------------------------------------------------------
(* The nom combinators the program uses (complete, on &str). *)

tag(t, i) == IF StartsWith(i, t) THEN Ok(Drop(i, Len(t)), t) ELSE Err

char(c, i) == IF i # <<>> /\ i[1] = c THEN Ok(Tail(i), c) ELSE Err

take_until(t, i) ==
    LET at == Find(t, i, 1)
    IN  IF at = 0 THEN Err ELSE Ok(Drop(i, at - 1), Take(i, at - 1))

space0(i) ==
    LET n == SpanIn({" ", "\t"}, i, 1) IN Ok(Drop(i, n), Take(i, n))

space1(i) ==
    LET n == SpanIn({" ", "\t"}, i, 1)
    IN  IF n = 0 THEN Err ELSE Ok(Drop(i, n), Take(i, n))

line_ending(i) ==
    IF StartsWith(i, <<"\n">>) THEN Ok(Drop(i, 1), <<"\n">>)
    ELSE IF StartsWith(i, <<"\r", "\n">>) THEN Ok(Drop(i, 2), <<"\r", "\n">>)
    ELSE Err

\* everything up to a line ending; an error at a "\r" that no "\n" follows
not_line_ending(i) ==
    LET n == SpanNotIn({"\r", "\n"}, i, 1)
    IN  IF n = Len(i) THEN Ok(<<>>, i)
        ELSE IF i[n + 1] = "\r" /\ ~StartsWith(Drop(i, n), <<"\r", "\n">>) THEN Err
        ELSE Ok(Drop(i, n), Take(i, n))

\* the ? of Rust: go on with the result r when it is Ok, return its error otherwise
Try(r, K(_)) == IF r.ok THEN K(r) ELSE Err

\* alt((a, b)): b is tried on the same input when a returns Err::Error
alt(a, b) == IF a.ok THEN a ELSE b

\* delimited(tag(a), take_until(b), tag(b))
delimited(a, b, i) ==
    Try(tag(a, i), LAMBDA r1 :
    Try(take_until(b, r1.rest), LAMBDA r2 :
    Try(tag(b, r2.rest), LAMBDA r3 :
    Ok(r3.rest, r2.val))))

---------------------------------------------------------------------------
(* The locator layer. *)

github == <<"g", "i", "t", "h", "u", "b">>

gitlab == <<"g", "i", "t", "l", "a", "b">>

\* a conversion that falls back to Github for a tag it does not know
try_from_or_github(value) ==
    IF value = gitlab THEN [ok |-> TRUE, val |-> "Gitlab"] ELSE [ok |-> TRUE, val |-> "Github"]

FlakeRefType_try_from(value) ==
    IF value = github THEN [ok |-> TRUE, val |-> "Github"]
    ELSE IF value = gitlab THEN [ok |-> TRUE, val |-> "Gitlab"]
    ELSE Err

\* take_while1(|c| c != '?' && c != '\n')
take_body(i) ==
    LET n == SpanNotIn({"?", "\n"}, i, 1)
    IN  IF n = 0 THEN Err ELSE Ok(Drop(i, n), Take(i, n))

\* verify(take_while1(..), |s| s.matches('/').count() == 2)
verify_body(i) ==
    Try(take_body(i), LAMBDA r : IF Count("/", r.val) = 2 THEN r ELSE Err)

\* |i| { char('?'); not_line_ending }
query_suffix(i) ==
    Try(char("?", i), LAMBDA r1 : not_line_ending(r1.rest))

\* opt(..): what the parser returns, or nothing consumed at its Err::Error
opt(i, r) == IF r.ok THEN r ELSE Ok(i, <<>>)

\* the position of the last c in s, 0 when there is none
RECURSIVE LastIndex(_, _, _)
LastIndex(c, s, i) ==
    IF i = 0 THEN 0 ELSE IF s[i] = c THEN i ELSE LastIndex(c, s, i - 1)

\* s.splitn(2, '/') in the order of rsplitn2: the split at the first '/'
splitn2(s) ==
    LET n == SpanNotIn({"/"}, s, 1)
    IN  IF n = Len(s) THEN <<s>> ELSE <<Drop(s, n + 1), Take(s, n)>>

\* s.rsplitn(2, '/').collect(): the part after the last '/', then the part before it
rsplitn2(s) ==
    LET at == LastIndex("/", s, Len(s))
    IN  IF at = 0 THEN <<s>> ELSE <<Drop(s, at), Take(s, at - 1)>>

FlakeRef_parse_from(i) ==
    Try(take_until(<<":">>, i), LAMBDA r1 :
    Try(char(":", r1.rest), LAMBDA r2 :
    Try(FlakeRefType_try_from(r1.val), LAMBDA ref_type :
    Try(verify_body(r2.rest), LAMBDA repo_and_sha :
    Try(opt(repo_and_sha.rest, query_suffix(repo_and_sha.rest)), LAMBDA r4 :
    Ok(r4.rest, [ref_type |-> ref_type.val,
                 repo |-> rsplitn2(repo_and_sha.val)[2],
                 commit |-> rsplitn2(repo_and_sha.val)[1]]))))))

repo_url(self) ==
    IF self.ref_type = "Github"
    THEN <<"h", "t", "t", "p", "s", ":", "/", "/", "g", "i", "t", "h", "u", "b", ".", "c", "o", "m", "/">> \o self.repo
    ELSE <<"h", "t", "t", "p", "s", ":", "/", "/", "g", "i", "t", "l", "a", "b", ".", "c", "o", "m", "/">> \o self.repo

\* &s[..n]: the first n bytes of s; a panic when s is shorter than n bytes or
\* byte n is inside a character
byte_prefix(s, n) ==
    LET ks == {k \in 0..Len(s) : ByteLen(Take(s, k)) = n}
    IN  IF ks = {} THEN [ok |-> FALSE, err |-> "panic"]
        ELSE [ok |-> TRUE, val |-> Take(s, CHOOSE k \in ks : TRUE)]

\* self.commit[..8].to_string()
sha(self) == byte_prefix(self.commit, 8)

---------------------------------------------------------------------------
(* The dated-locator layer. *)

DatedFlakeRef_parse_from(i) ==
    Try(space0(i), LAMBDA r0 :
    Try(delimited(<<"'">>, <<"'">>, r0.rest), LAMBDA url :
    Try(space1(url.rest), LAMBDA r2 :
    Try(delimited(<<"(">>, <<")">>, r2.rest), LAMBDA date :
    Try(line_ending(date.rest), LAMBDA r4 :
    Try(FlakeRef_parse_from(url.val), LAMBDA flake_ref :
    Ok(r4.rest, [flake_ref |-> flake_ref.val, date |-> date.val])))))))

---------------------------------------------------------------------------
(* The change layer. *)

UpdateInfo_parse_from(i) ==
    Try(DatedFlakeRef_parse_from(i), LAMBDA from :
    Try(space0(from.rest), LAMBDA r1 :
    Try(tag(<<"U+2192">>, r1.rest), LAMBDA r2 :
    Try(DatedFlakeRef_parse_from(r2.rest), LAMBDA to :
    Ok(to.rest, [from |-> from.val, to |-> to.val])))))

None == [some |-> FALSE]

Some(v) == [some |-> TRUE, val |-> v]

\* a diff URL that compares the repository paths only, not the providers
url_same_repo(self) ==
    IF self.from.flake_ref.repo # self.to.flake_ref.repo THEN None
    ELSE Some(repo_url(self.from.flake_ref) \o <<"/", "c", "o", "m", "p", "a", "r", "e", "/">>
              \o self.from.flake_ref.commit \o <<".", ".", ".">> \o self.to.flake_ref.commit)

UpdateInfo_url(self) ==
    LET from == self.from.flake_ref
        to == self.to.flake_ref
    IN  IF from.repo # to.repo \/ from.ref_type # to.ref_type THEN None
        ELSE Some(repo_url(from) \o <<"/", "c", "o", "m", "p", "a", "r", "e", "/">>
                  \o from.commit \o <<".", ".", ".">> \o to.commit)

\* the first alternative without its space0: no whitespace before "follows "
follows_parse_unindented(i) ==
    Try(tag(<<"f", "o", "l", "l", "o", "w", "s", " ">>, i), LAMBDA r1 :
    Try(delimited(<<"'">>, <<"'">>, r1.rest), LAMBDA repo :
    Try(line_ending(repo.rest), LAMBDA r3 :
    Ok(r3.rest, [tag |-> "Follows", path |-> repo.val]))))

\* the first alternative of AddInfo::parse_from
follows_parse(i) ==
    Try(space0(i), LAMBDA r0 :
    Try(tag(<<"f", "o", "l", "l", "o", "w", "s", " ">>, r0.rest), LAMBDA r1 :
    Try(delimited(<<"'">>, <<"'">>, r1.rest), LAMBDA repo :
    Try(line_ending(repo.rest), LAMBDA r3 :
    Ok(r3.rest, [tag |-> "Follows", path |-> repo.val])))))

\* the second alternative of AddInfo::parse_from
new_parse(i) ==
    Try(DatedFlakeRef_parse_from(i), LAMBDA flake_ref :
    Ok(flake_ref.rest, [tag |-> "New", ref |-> flake_ref.val]))

AddInfo_parse_from(i) == alt(follows_parse(i), new_parse(i))

parse_updated(i) ==
    Try(tag(<<"U+2022", " ", "U", "p", "d", "a", "t", "e", "d", " ", "i", "n", "p", "u", "t", " ", "'">>, i), LAMBDA r1 :
    Try(take_until(<<"'", ":">>, r1.rest), LAMBDA package :
    Try(tag(<<"'", ":">>, package.rest), LAMBDA r3 :
    Try(line_ending(r3.rest), LAMBDA r4 :
    Try(UpdateInfo_parse_from(r4.rest), LAMBDA info :
    Ok(info.rest, [kind |-> "Updated", name |-> package.val, info |-> info.val]))))))

parse_added(i) ==
    Try(tag(<<"U+2022", " ", "A", "d", "d", "e", "d", " ", "i", "n", "p", "u", "t", " ", "'">>, i), LAMBDA r1 :
    Try(take_until(<<"'", ":">>, r1.rest), LAMBDA r2 :
    Try(tag(<<"'", ":">>, r2.rest), LAMBDA r3 :
    Try(line_ending(r3.rest), LAMBDA r4 :
    Try(AddInfo_parse_from(r4.rest), LAMBDA info :
    Ok(info.rest, [kind |-> "Added", info |-> info.val]))))))

\* parse_entry without its second alternative
parse_entry_updated_only(i) == parse_updated(i)

parse_entry(i) == alt(parse_updated(i), parse_added(i))

---------------------------------------------------------------------------
(* The document layer and the rendering. *)

\* a header parser that asks for the title line only, not for the blank line
parse_header_title_line(i) ==
    Try(tag(<<"F", "l", "a", "k", "e", " ", "l", "o", "c", "k", " ", "f", "i", "l", "e", " ", "u", "p", "d", "a", "t", "e", "s", ":">>, i), LAMBDA r1 :
    Try(line_ending(r1.rest), LAMBDA r2 :
    Ok(r2.rest, <<>>)))

parse_header(i) ==
    Try(tag(<<"F", "l", "a", "k", "e", " ", "l", "o", "c", "k", " ", "f", "i", "l", "e", " ", "u", "p", "d", "a", "t", "e", "s", ":">>, i), LAMBDA r1 :
    Try(line_ending(r1.rest), LAMBDA r2 :
    Try(line_ending(r2.rest), LAMBDA r3 :
    Ok(r3.rest, <<>>))))

Panic == [ok |-> FALSE, err |-> "panic"]

\* format!(..) of an Updated entry: the arguments are evaluated in order, and a
\* panic of sha() or of url().unwrap() leaves no string
summary_updated(name, info) ==
    LET from_sha == sha(info.from.flake_ref)
        to_sha == sha(info.to.flake_ref)
        url == UpdateInfo_url(info)
    IN  IF ~from_sha.ok \/ ~to_sha.ok \/ ~url.some THEN Panic
        ELSE [ok |-> TRUE, val |->
                <<" ", "-", " ", "U", "p", "d", "a", "t", "e", "d", " ", "i", "n", "p", "u", "t", " ", "[", "U+0060">>
                \o name \o <<"U+0060", "]", "(">> \o repo_url(info.from.flake_ref)
                \o <<")", ":", " ", "[", "U+0060">> \o from_sha.val
                \o <<"U+0060", " ", "U+27A1", "U+FE0F", " ", "U+0060">> \o to_sha.val
                \o <<"U+0060", "]", "(">> \o url.val
                \o <<")", " ", "<", "s", "u", "b", ">", "(">> \o info.from.date
                \o <<" ", "t", "o", " ">> \o info.to.date
                \o <<")", "<", "s", "u", "b", "/", ">">>]

summary_added(info) ==
    IF info.tag = "Follows"
    THEN [ok |-> TRUE, val |->
            <<" ", "-", " ", "A", "d", "d", "e", "d", " ", "i", "n", "p", "u", "t", " ", "(", "f", "o", "l", "l", "o", "w", "s", " ", "U+0060">>
            \o info.path \o <<"U+0060", ")">>]
    ELSE LET ref_sha == sha(info.ref.flake_ref)
         IN  IF ~ref_sha.ok THEN Panic
             ELSE [ok |-> TRUE, val |->
                     <<" ", "-", " ", "A", "d", "d", "e", "d", " ", "i", "n", "p", "u", "t", " ", "[", "U+0060">>
                     \o ref_sha.val \o <<"U+0060", "]", "(">> \o repo_url(info.ref.flake_ref)
                     \o <<")", " ", "(">> \o info.ref.date \o <<")">>]

Entry_summary(self) ==
    IF self.kind = "Updated" THEN summary_updated(self.name, self.info)
    ELSE summary_added(self.info)

---------------------------------------------------------------------------
(* main: read stdin, parse the header, collect many0(parse_entry), echo    *)
(* the raw input, print the summary of every entry.                        *)

\* main, lines 11-17, on the result r of parse_header(input): a header that does
\* not parse ends the process with status 1
header_parsed(r) ==
    IF r.ok
    THEN /\ remaining' = r.rest
         /\ pc' = "entries"
    ELSE /\ remaining' = remaining
         /\ pc' = "exit_header"

ParseHeader ==
    /\ pc = "header"
    /\ header_parsed(parse_header(input))
    /\ UNCHANGED <<given, input, entries, out, flake, short>>

\* one round of many0 on the result r of its parser: many0 goes on after an Ok,
\* returns Ok(entries) at the first Err::Error, and returns an error when the
\* parser fails otherwise or succeeds without consuming anything
many0_round(r) ==
    IF r.ok /\ Len(r.rest) < Len(remaining)
    THEN /\ entries' = Append(entries, r.val)
         /\ remaining' = r.rest
         /\ pc' = "entries"
    ELSE /\ UNCHANGED <<entries, remaining>>
         /\ pc' = IF ~r.ok /\ r.err = "Error" THEN "echo" ELSE "exit_entries"

\* main, lines 19-25: many0(parse_entry).parse(remaining)
ParseEntries ==
    /\ pc = "entries"
    /\ many0_round(parse_entry(remaining))
    /\ UNCHANGED <<given, input, out, flake, short>>

\* main, lines 27-31: the raw input is echoed inside a <details> block
Echo ==
    /\ pc = "echo"
    /\ pc' = "render"
    /\ UNCHANGED <<given, input, remaining, entries, out, flake, short>>

\* main, lines 34-36: one round of the loop printing entry.summary()
RenderLine ==
    /\ pc = "render"
    /\ Len(out) < Len(entries)
    /\ Entry_summary(entries[Len(out) + 1]).ok
    /\ out' = Append(out, Entry_summary(entries[Len(out) + 1]).val)
    /\ UNCHANGED <<given, input, pc, remaining, entries, flake, short>>

\* a panic inside summary() ends the process before the line is printed
RenderPanic ==
    /\ pc = "render"
    /\ Len(out) < Len(entries)
    /\ ~Entry_summary(entries[Len(out) + 1]).ok
    /\ pc' = "panic"
    /\ UNCHANGED <<given, input, remaining, entries, out, flake, short>>

RenderDone ==
    /\ pc = "render"
    /\ Len(out) = Len(entries)
    /\ pc' = "done"
    /\ UNCHANGED <<given, input, remaining, entries, out, flake, short>>

---------------------------------------------------------------------------
(* The inputs: notifications composed of the pieces of the format, as the  *)
(* input of test_parse_full_input is.                                      *)

Title == <<"F", "l", "a", "k", "e", " ", "l", "o", "c", "k", " ", "f", "i", "l", "e", " ", "u", "p", "d", "a", "t", "e", "s", ":">>

BulletUpdated == <<"U+2022", " ", "U", "p", "d", "a", "t", "e", "d", " ", "i", "n", "p", "u", "t", " ", "'">>

BulletAdded == <<"U+2022", " ", "A", "d", "d", "e", "d", " ", "i", "n", "p", "u", "t", " ", "'">>

LF == <<"\n">>

CRLF == <<"\r", "\n">>

Indent == <<" ", " ", " ", " ">>

ArrowLine == <<" ", " ", "U+2192">>

\* a locator <tag>:<repo>/<commit><query><junk>
Loc(t, repo, commit, query, junk) ==
    [tag |-> t, repo |-> repo, commit |-> commit, query |-> query, junk |-> junk]

LocText(l) == l.tag \o <<":">> \o l.repo \o <<"/">> \o l.commit \o l.query \o l.junk

\* a line <indent>'<locator>'<gap>(<date>)<eol>
Dated(loc, date, indent, gap, eol) ==
    [loc |-> loc, date |-> date, indent |-> indent, gap |-> gap, eol |-> eol]

DatedText(d) ==
    d.indent \o <<"'">> \o LocText(d.loc) \o <<"'">> \o d.gap
    \o <<"(">> \o d.date \o <<")">> \o d.eol

Updated(name, from, arrow, to) ==
    [kind |-> "Updated", name |-> name, from |-> from, arrow |-> arrow, to |-> to]

AddedNew(name, ref) == [kind |-> "AddedNew", name |-> name, ref |-> ref]

\* an Added block whose body is <indent><marker>'<path><close><trail><eol>
AddedFollows(name, indent, marker, path, close, trail, eol) ==
    [kind |-> "AddedFollows", name |-> name, indent |-> indent, marker |-> marker,
     path |-> path, close |-> close, trail |-> trail, eol |-> eol]

Junk(text) == [kind |-> "Junk", text |-> text]

BlockText(b) ==
    CASE b.kind = "Updated" ->
            BulletUpdated \o b.name \o <<"'", ":">> \o LF
            \o DatedText(b.from) \o b.arrow \o DatedText(b.to)
      [] b.kind = "AddedNew" ->
            BulletAdded \o b.name \o <<"'", ":">> \o LF \o DatedText(b.ref)
      [] b.kind = "AddedFollows" ->
            BulletAdded \o b.name \o <<"'", ":">> \o LF
            \o b.indent \o b.marker \o <<"'">> \o b.path \o b.close \o b.trail \o b.eol
      [] OTHER -> b.text

RECURSIVE BlocksText(_)
BlocksText(bs) == IF bs = <<>> THEN <<>> ELSE BlockText(Head(bs)) \o BlocksText(Tail(bs))

DocText(d) == d.title \o d.after \o BlocksText(d.blocks)

\* the pieces the inputs are drawn from
RepoON == <<"o", "/", "n">>

RepoOM == <<"o", "/", "m">>

Commit9 == <<"a", "b", "c", "d", "e", "f", "g", "h", "1">>

Commit8 == <<"h", "g", "f", "e", "d", "c", "b", "a">>

CommitShort == <<"a", "b", "c">>

\* 8 characters, 9 bytes: byte 8 is inside the last character
CommitSplit == <<"a", "a", "a", "a", "a", "a", "a", "U+00E9">>

\* 8 characters, 9 bytes: byte 8 ends the 7th character
CommitWide == <<"U+00E9", "a", "b", "c", "d", "e", "f", "g">>

Date1 == <<"1", "0", "-", "0", "3">>

Date2 == <<"1", "0", "-", "1", "0">>

NameHM == <<"h", "m">>

NameFU == <<"l", "/", "f", "u">>

NameFV == <<"l", "/", "f", "v">>

PathAB == <<"a", "/", "b">>

\* a provider tag the program does not know
Hg == <<"h", "g">>

FollowsMarker == <<"f", "o", "l", "l", "o", "w", "s", " ">>

Plain(t, repo, commit) == Loc(t, repo, commit, <<>>, <<>>)

Line(loc, date) == Dated(loc, date, Indent, <<" ">>, LF)

\* the "to" line of an Updated block: the arrow is followed by one space
ToLine(loc, date) == Dated(loc, date, <<" ">>, <<" ">>, LF)

\* the blocks the documents of main are composed of
DocBlocks ==
    { Updated(NameHM, Line(Plain(github, RepoON, Commit9), Date1), ArrowLine,
              ToLine(Plain(github, RepoON, Commit8), Date2)),
      Updated(NameHM, Line(Plain(github, RepoON, Commit9), Date1), ArrowLine,
              ToLine(Plain(gitlab, RepoON, Commit8), Date2)),
      AddedNew(NameFU, Line(Plain(gitlab, RepoOM, Commit9), Date1)),
      AddedNew(NameFV, Line(Plain(gitlab, RepoOM, Commit9), Date1)),
      AddedFollows(NameFU, Indent, FollowsMarker, PathAB, <<"'">>, <<>>, LF),
      Updated(NameHM, Line(Plain(github, RepoON, Commit9), Date1), <<>>,
              ToLine(Plain(github, RepoON, Commit8), Date2)),
      AddedNew(NameFU, Line(Plain(Hg, RepoOM, Commit9), Date1)),
      Junk(<<"z", "z", "\n">>) }

RECURSIVE SeqsUpTo(_, _)
SeqsUpTo(set, n) ==
    IF n = 0 THEN {<<>>}
    ELSE LET shorter == SeqsUpTo(set, n - 1)
         IN  shorter \cup {Append(s, x) : s \in {t \in shorter : Len(t) = n - 1}, x \in set}

Titles == {Title, <<"f">> \o Tail(Title)}

Afters == {LF \o LF, CRLF \o CRLF, LF, LF \o LF \o LF}

Docs == [title : Titles, after : Afters, blocks : SeqsUpTo(DocBlocks, MaxBlocks)]

Init ==
    /\ given \in Docs
    /\ input = DocText(given)
    /\ pc = "header"
    /\ remaining = <<>>
    /\ entries = <<>>
    /\ out = <<>>
    /\ flake = Unset
    /\ short = Unset

Next ==
    \/ ParseHeader
    \/ ParseEntries
    \/ Echo
    \/ RenderLine
    \/ RenderPanic
    \/ RenderDone

Spec == Init /\ [][Next]_vars

---------------------------------------------------------------------------
(* Unit runs of parse_entry and Entry::summary: one block is drawn, parsed *)
(* by many0(parse_entry) and rendered.                                     *)

QuerySuffix == <<"?", "s", "=", "1">>

Leftover == <<"\n", "z">>

UnitLocs ==
    {Plain(t, r, c) :
        t \in {github, gitlab, Hg},
        r \in {RepoON, RepoOM, <<"o">>, <<"o", "/", "n", "/", "x">>},
        c \in {Commit9, Commit8, CommitShort, CommitSplit, CommitWide}}
    \cup {Loc(github, RepoON, Commit9, q, j) : q \in {<<>>, QuerySuffix}, j \in {<<>>, Leftover}}

ToLocs ==
    { Plain(github, RepoON, Commit8), Plain(gitlab, RepoON, Commit8),
      Plain(github, RepoOM, Commit9), Plain(github, RepoON, CommitSplit),
      Loc(github, RepoON, Commit9, <<>>, Leftover) }

UnitLines ==
    {Line(l, Date1) : l \in UnitLocs}
    \cup {Dated(Plain(github, RepoON, Commit9), Date1, ind, gap, eol) :
            ind \in {<<>>, Indent, <<"\t", " ">>},
            gap \in {<<>>, <<" ">>, <<" ", "\t">>},
            eol \in {LF, CRLF, <<>>, <<"\r">>}}

UnitBlocks ==
    {Updated(NameHM, Line(f, Date1), ArrowLine, ToLine(t, Date2)) : f \in UnitLocs, t \in ToLocs}
    \cup {Updated(NameHM, Line(Plain(github, RepoON, Commit9), Date1), a,
                  ToLine(Plain(github, RepoON, Commit8), Date2)) :
            a \in {<<>>, <<"U+2192">>, <<" ", "-", ">">>}}
    \cup {AddedNew(n, d) : n \in {NameFU, NameFV}, d \in UnitLines}
    \cup {AddedFollows(NameFU, ind, m, path, close, trail, eol) :
            ind \in {<<>>, Indent, <<"\t">>},
            m \in {FollowsMarker, <<"f", "o", "l", "l", "o", "w", "s">>,
                   <<"F", "o", "l", "l", "o", "w", "s", " ">>, FollowsMarker \o <<" ">>},
            path \in {PathAB, <<>>, LocText(Plain(github, RepoON, Commit9))},
            close \in {<<"'">>, <<>>},
            trail \in {<<>>, <<" ", "x">>},
            eol \in {LF, CRLF, <<>>}}
    \cup {Junk(<<"z", "z", "\n">>), Junk(<<>>)}

InitEntry ==
    /\ given \in [title : {<<>>}, after : {<<>>}, blocks : {<<b>> : b \in UnitBlocks}]
    /\ input = BlocksText(given.blocks)
    /\ pc = "entries"
    /\ remaining = input
    /\ entries = <<>>
    /\ out = <<>>
    /\ flake = Unset
    /\ short = Unset

NextEntry ==
    \/ ParseEntries
    \/ Echo
    \/ RenderLine
    \/ RenderPanic
    \/ RenderDone

SpecEntry == InitEntry /\ [][NextEntry]_vars

---------------------------------------------------------------------------
(* Unit runs of the locator layer: a locator string is drawn, parsed, and  *)
(* its commit abbreviated.                                                 *)

RECURSIVE TextsUpTo(_, _)
TextsUpTo(alphabet, n) ==
    IF n = 0 THEN {<<>>}
    ELSE LET shorter == TextsUpTo(alphabet, n - 1)
         IN  shorter \cup {Append(s, c) : s \in {t \in shorter : Len(t) = n - 1}, c \in alphabet}

Tags == {github, gitlab, <<"G", "i", "t", "h", "u", "b">>, Hg, <<>>}

Bodies == TextsUpTo({"a", "/", "?", "\n", ":"}, MaxBody)

Commits == TextsUpTo({"a", "U+00E9"}, MaxCommit)

Queries == {<<>>, <<"q">>, <<"q", "\r", "x">>, <<"q", "\n", "x">>, <<"/", "?">>}

Locators ==
    [tag : Tags, sep : {<<>>, <<":">>}, body : Bodies]
    \cup [tag : {github}, sep : {<<":">>}, body : {<<"o", "/", "n", "/">> \o c : c \in Commits}]

LocatorText(l) == l.tag \o l.sep \o l.body

InitRef ==
    /\ given \in Locators
    /\ input = LocatorText(given)
    /\ pc = "ref"
    /\ remaining = <<>>
    /\ entries = <<>>
    /\ out = <<>>
    /\ flake = Unset
    /\ short = Unset

ParseRef ==
    /\ pc = "ref"
    /\ flake' = FlakeRef_parse_from(input)
    /\ pc' = IF flake'.ok THEN "sha" ELSE "rejected"
    /\ UNCHANGED <<given, input, remaining, entries, out, short>>

Sha ==
    /\ pc = "sha"
    /\ short' = sha(flake.val)
    /\ pc' = "abbreviated"
    /\ UNCHANGED <<given, input, remaining, entries, out, flake>>

NextRef == ParseRef \/ Sha

SpecRef == InitRef /\ [][NextRef]_vars

---------------------------------------------------------------------------
(* What the format says of an input, read off the pieces it was composed   *)
(* of (given) or off its text, without the parsers above.                  *)

HSpace(t) == \A k \in 1..Len(t) : t[k] \in {" ", "\t"}

Terminator(t) == t \in {LF, CRLF}

Positions(set, t) == {k \in 1..Len(t) : t[k] \in set}

\* the first position of a character of set in t, Len(t) + 1 when there is none
FirstOf(set, t) ==
    IF Positions(set, t) = {} THEN Len(t) + 1
    ELSE CHOOSE k \in Positions(set, t) : \A m \in Positions(set, t) : k <= m

\* the last position of a character of set in t, 0 when there is none
LastOf(set, t) ==
    IF Positions(set, t) = {} THEN 0
    ELSE CHOOSE k \in Positions(set, t) : \A m \in Positions(set, t) : k >= m

Contains(t, part) == \E k \in 1..(Len(t) + 1) : StartsWith(Drop(t, k - 1), part)

HasColon(t) == Positions({":"}, t) # {}

\* the tag of a locator string: the text before its first ':'
TagOf(t) == Take(t, FirstOf({":"}, t) - 1)

\* the body of a locator string: the text after its first ':' up to the first '?' or newline
BodyOf(t) ==
    LET after == Drop(t, FirstOf({":"}, t))
    IN  Take(after, FirstOf({"?", "\n"}, after) - 1)

ProviderOf(t) == IF t = github THEN "Github" ELSE "Gitlab"

BaseUrl(t) ==
    IF t = github
    THEN <<"h", "t", "t", "p", "s", ":", "/", "/", "g", "i", "t", "h", "u", "b", ".", "c", "o", "m", "/">>
    ELSE <<"h", "t", "t", "p", "s", ":", "/", "/", "g", "i", "t", "l", "a", "b", ".", "c", "o", "m", "/">>

\* a locator piece the locator grammar recognises at the start of the quoted string
RecognisedLoc(l) == l.tag \in {github, gitlab} /\ Count("/", l.repo) = 1

ExpRef(l) == [ref_type |-> ProviderOf(l.tag), repo |-> l.repo, commit |-> l.commit]

RecognisedLine(d) ==
    /\ RecognisedLoc(d.loc)
    /\ HSpace(d.indent)
    /\ d.gap # <<>> /\ HSpace(d.gap)
    /\ Terminator(d.eol)

ExpDated(d) == [flake_ref |-> ExpRef(d.loc), date |-> d.date]

FollowsShape(b) ==
    /\ HSpace(b.indent)
    /\ b.marker = FollowsMarker
    /\ b.close = <<"'">>
    /\ b.trail = <<>>
    /\ Terminator(b.eol)

ArrowShape(a) == a # <<>> /\ a[Len(a)] = "U+2192" /\ HSpace(Take(a, Len(a) - 1))

WellFormed(b) ==
    CASE b.kind = "Updated" -> RecognisedLine(b.from) /\ ArrowShape(b.arrow) /\ RecognisedLine(b.to)
      [] b.kind = "AddedNew" -> RecognisedLine(b.ref)
      [] b.kind = "AddedFollows" -> FollowsShape(b)
      [] OTHER -> FALSE

ExpEntry(b) ==
    CASE b.kind = "Updated" ->
            [kind |-> "Updated", name |-> b.name,
             info |-> [from |-> ExpDated(b.from), to |-> ExpDated(b.to)]]
      [] b.kind = "AddedNew" -> [kind |-> "Added", info |-> [tag |-> "New", ref |-> ExpDated(b.ref)]]
      [] OTHER -> [kind |-> "Added", info |-> [tag |-> "Follows", path |-> b.path]]

\* the length of the longest run of well-formed blocks at the start of bs
RECURSIVE RunLen(_)
RunLen(bs) == IF bs = <<>> \/ ~WellFormed(Head(bs)) THEN 0 ELSE 1 + RunLen(Tail(bs))

TwoTerminators(a) == \E x, y \in {LF, CRLF} : StartsWith(a, x \o y)

OneBlankLine(a) == \E x, y \in {LF, CRLF} : a = x \o y

\* what follows the two line terminators of the header
AfterHeader(d) ==
    LET x == CHOOSE x \in {LF, CRLF} : StartsWith(d.after, x)
        y == CHOOSE y \in {LF, CRLF} : StartsWith(d.after, x \o y)
    IN  Drop(d.after, Len(x \o y)) \o BlocksText(d.blocks)

ValidHeader(d) == d.title = Title /\ TwoTerminators(d.after)

\* the blocks that start the text after a valid header
LeadingBlocks(d) == IF OneBlankLine(d.after) THEN d.blocks ELSE <<>>

Collected == pc \in {"echo", "render", "done", "panic"}

---------------------------------------------------------------------------
(* C1: after a valid header the document parse never returns an error; it  *)
(* yields, in input order, exactly the entries of the longest run of       *)
(* well-formed blocks at the start of the text and stops at the first      *)
(* position where no block matches: what follows, later well-formed blocks *)
(* included, yields no entry, and a text starting with no block yields     *)
(* zero entries.                                                           *)
C1_DocumentParse ==
    /\ pc # "exit_entries"
    /\ ValidHeader(given) /\ pc # "header" =>
          LET bs == LeadingBlocks(given)
              n == RunLen(bs)
          IN  /\ pc # "exit_header"
              /\ Len(entries) <= n
              /\ \A k \in 1..Len(entries) : entries[k] = ExpEntry(bs[k])
              /\ Collected =>
                    /\ Len(entries) = n
                    /\ remaining = Drop(AfterHeader(given), Len(BlocksText(SubSeq(bs, 1, n))))

\* a well-formed block, a malformed one and a well-formed one again: one entry
C1_Witness ==
    /\ pc = "echo"
    /\ ValidHeader(given) /\ OneBlankLine(given.after)
    /\ Len(given.blocks) = 3
    /\ WellFormed(given.blocks[1]) /\ ~WellFormed(given.blocks[2]) /\ WellFormed(given.blocks[3])
    /\ Len(entries) = 1
    /\ remaining # <<>>

---------------------------------------------------------------------------
\* the state right after parse_header returned Ok
HeaderJustParsed == pc = "entries" /\ entries = <<>> /\ Len(input) > Len(remaining)

(* C8 as stated: parse_header succeeds only when the input starts with the *)
(* exact title line followed by exactly one blank line, its remainder is   *)
(* then the text starting at the first block, and on any other input it    *)
(* fails and main parses no entry and renders no line.                     *)
C8_ExactlyOneBlankLine ==
    pc # "header" =>
        /\ pc # "exit_header" <=> (given.title = Title /\ OneBlankLine(given.after))
        /\ HeaderJustParsed => remaining = BlocksText(given.blocks)
        /\ pc = "exit_header" => entries = <<>> /\ out = <<>> /\ ~ENABLED Next

(* C8 as amended: parse_header succeeds exactly when the input starts with *)
(* the exact title line followed by two line terminators ("\n" or "\r\n"), *)
(* that is by at least one blank line, and its remainder is the text after *)
(* the second terminator, whatever that text is; on any other input it     *)
(* fails and main parses no entry and renders no line.                     *)
C8_HeaderTwoTerminators ==
    pc # "header" =>
        /\ pc # "exit_header" <=> (given.title = Title /\ TwoTerminators(given.after))
        /\ HeaderJustParsed => remaining = AfterHeader(given)
        /\ pc = "exit_header" => entries = <<>> /\ out = <<>> /\ ~ENABLED Next

\* a header with two blank lines is accepted, and the remainder starts at the
\* second blank line
C8_Witness ==
    /\ HeaderJustParsed
    /\ given.after = LF \o LF \o LF
    /\ given.blocks # <<>>
    /\ remaining = LF \o BlocksText(given.blocks)

---------------------------------------------------------------------------
(* C9: every entry carries the name of its block header, the Added entries *)
(* included: the name of the block can be read off the entry, and two      *)
(* Added blocks that differ only in the name yield different entries.      *)
C9_NameCarried ==
    ValidHeader(given) /\ OneBlankLine(given.after) =>
        \A j, k \in 1..Len(entries) :
            entries[j] = entries[k] => given.blocks[j].name = given.blocks[k].name

---------------------------------------------------------------------------
(* The unit runs of parse_entry: the block drawn and the entry it gave. *)

Block == given.blocks[1]

Parsed == pc # "entries" /\ entries # <<>>

Unmatched == pc # "entries" /\ entries = <<>> /\ remaining = input

SameOrigin(b) == b.from.loc.tag = b.to.loc.tag /\ b.from.loc.repo = b.to.loc.repo

\* <repo_url of from>/compare/<a>...<b>
CompareUrl(b, a_commit, b_commit) ==
    BaseUrl(b.from.loc.tag) \o b.from.loc.repo
    \o <<"/", "c", "o", "m", "p", "a", "r", "e", "/">> \o a_commit \o <<".", ".", ".">> \o b_commit

(* C4 as stated: the diff URL of an Updated entry is present exactly when  *)
(* from and to have the same provider and the same repository path, and    *)
(* then it is <repo_url of from>/compare/<from_short>...<to_short> with    *)
(* the 8-character abbreviated commits.                                    *)
C4_UrlOfShortCommits ==
    Parsed /\ entries[1].kind = "Updated" =>
        LET url == UpdateInfo_url(entries[1].info)
        IN  /\ url.some <=> SameOrigin(Block)
            /\ url.some /\ Len(Block.from.loc.commit) >= 8 /\ Len(Block.to.loc.commit) >= 8 =>
                  url.val = CompareUrl(Block, Take(Block.from.loc.commit, 8),
                                       Take(Block.to.loc.commit, 8))

(* C4 as amended: the diff URL of an Updated entry is present exactly when *)
(* from and to have the same provider and the same repository path, and    *)
(* then it is <repo_url of from>/compare/<from commit>...<to commit> with  *)
(* the two commits in full, not abbreviated.                               *)
C4_UrlOfFullCommits ==
    Parsed /\ entries[1].kind = "Updated" =>
        LET url == UpdateInfo_url(entries[1].info)
        IN  /\ url.some <=> SameOrigin(Block)
            /\ url.some => url.val = CompareUrl(Block, Block.from.loc.commit, Block.to.loc.commit)
            /\ pc = "done" => Contains(out[1], url.val)

\* an update inside one repository, from a commit of more than 8 characters, rendered
C4_Witness ==
    /\ pc = "done"
    /\ entries # <<>> /\ entries[1].kind = "Updated"
    /\ UpdateInfo_url(entries[1].info).some
    /\ Len(entries[1].info.from.flake_ref.commit) > 8

---------------------------------------------------------------------------
\* the body line of an Added block
AddedBody(b) ==
    IF b.kind = "AddedNew" THEN DatedText(b.ref)
    ELSE b.indent \o b.marker \o <<"'">> \o b.path \o b.close \o b.trail \o b.eol

(* C6: an Added block whose body line is optional horizontal whitespace,   *)
(* "follows ", a single-quoted path and a line terminator yields           *)
(* Added(Follows(path)) with the path verbatim; otherwise a body that      *)
(* parses as a dated locator yields Added(New(dated locator)); no body     *)
(* yields both, and a body matching neither makes parse_entry fail.        *)
C6_AddedBody ==
    pc # "entries" /\ Block.kind \in {"AddedNew", "AddedFollows"} =>
        /\ ~(follows_parse(AddedBody(Block)).ok /\ new_parse(AddedBody(Block)).ok)
        /\ Block.kind = "AddedFollows" =>
              IF FollowsShape(Block)
              THEN entries = <<[kind |-> "Added", info |-> [tag |-> "Follows", path |-> Block.path]]>>
              ELSE Unmatched
        /\ Block.kind = "AddedNew" =>
              IF RecognisedLine(Block.ref)
              THEN entries = <<[kind |-> "Added", info |-> [tag |-> "New", ref |-> ExpDated(Block.ref)]]>>
              ELSE Unmatched

\* a follows body whose path reads like a locator, kept verbatim
C6_Witness ==
    /\ Parsed
    /\ Block.kind = "AddedFollows"
    /\ Block.indent # <<>>
    /\ Block.path = LocText(Plain(github, RepoON, Commit9))
    /\ entries[1].info.tag = "Follows"
    /\ entries[1].info.path = Block.path

---------------------------------------------------------------------------
Rendered == pc \in {"done", "panic"}

(* C7: rendering an Updated entry whose from and to differ in provider or  *)
(* repository path fails hard and produces no line; rendering one with the *)
(* same provider and repository and commits of at least 8 characters       *)
(* produces exactly one line with the name, the from repository URL, both  *)
(* abbreviated commits, the diff URL and both dates.                       *)
C7_UpdatedLine ==
    Rendered /\ entries # <<>> /\ entries[1].kind = "Updated" =>
        /\ ~SameOrigin(Block) => pc = "panic" /\ out = <<>>
        /\ (/\ SameOrigin(Block)
            /\ Len(Block.from.loc.commit) >= 8
            /\ Len(Block.to.loc.commit) >= 8) =>
                /\ pc = "done"
                /\ Len(out) = 1
                /\ Contains(out[1], Block.name)
                /\ Contains(out[1], BaseUrl(Block.from.loc.tag) \o Block.from.loc.repo)
                /\ Contains(out[1], Take(Block.from.loc.commit, 8))
                /\ Contains(out[1], Take(Block.to.loc.commit, 8))
                /\ Contains(out[1], UpdateInfo_url(entries[1].info).val)
                /\ Contains(out[1], Block.from.date)
                /\ Contains(out[1], Block.to.date)

---------------------------------------------------------------------------
\* the dated locators of a block
LinesOf(b) ==
    CASE b.kind = "Updated" -> {b.from, b.to}
      [] b.kind = "AddedNew" -> {b.ref}
      [] OTHER -> {}

(* C10: a quoted string is accepted only when the whole text between the   *)
(* quotes is a locator, optionally followed by ?<query>: a quoted string   *)
(* with text left over after the locator is rejected.                      *)
C10_WholeQuotedString ==
    pc # "entries" /\ (\E d \in LinesOf(Block) : d.loc.junk # <<>>) => Unmatched

---------------------------------------------------------------------------
(* The unit runs of FlakeRef::parse_from and FlakeRef::sha. *)

\* the locator string has a known provider tag and a body with exactly two '/'
ValidLocator(t) ==
    /\ HasColon(t)
    /\ TagOf(t) \in {github, gitlab}
    /\ Count("/", BodyOf(t)) = 2

(* C2: a locator string with a known provider and exactly two '/' before   *)
(* any '?' or newline parses to the tagged provider, the body before its   *)
(* last '/' as repo and the body after its last '/' as commit; with a      *)
(* ?<query> suffix appended it parses to the same FlakeRef.                *)
C2_LocatorParts ==
    pc # "ref" /\ ValidLocator(input) =>
        LET body == BodyOf(input)
            at == LastOf({"/"}, body)
        IN  /\ flake.ok
            /\ flake.val = [ref_type |-> ProviderOf(TagOf(input)),
                            repo |-> SubSeq(body, 1, at - 1),
                            commit |-> SubSeq(body, at + 1, Len(body))]
            /\ \A q \in Queries :
                  LET with_query == FlakeRef_parse_from(input \o <<"?">> \o q)
                  IN  with_query.ok /\ with_query.val = flake.val

\* org/name/commit with a commit of at least 8 characters, parsed
C2_Witness ==
    /\ pc = "sha"
    /\ ValidLocator(input)
    /\ flake.ok
    /\ flake.val.repo = RepoON
    /\ Len(flake.val.commit) >= 8
    /\ Positions({"?", "\n"}, input) = {}

(* C3: FlakeRef::parse_from rejects every string whose tag before the      *)
(* first ':' is not exactly github or gitlab, and every string whose body  *)
(* is empty or has zero, one, or three or more '/'; no FlakeRef is made.   *)
C3_Rejected ==
    pc # "ref" /\ ~ValidLocator(input) =>
        /\ ~flake.ok
        /\ flake = Err
        /\ pc = "rejected"
        /\ short = Unset

\* a capitalised tag before a valid body, and a known tag before three slashes
C3_Witness ==
    /\ pc = "rejected"
    /\ HasColon(input)
    /\ \/ TagOf(input) = <<"G", "i", "t", "h", "u", "b">> /\ Count("/", BodyOf(input)) = 2
       \/ TagOf(input) = gitlab /\ Count("/", BodyOf(input)) = 3

(* C5: the abbreviated commit is exactly the first 8 characters of the     *)
(* commit when it has at least 8 characters, and an error when it has      *)
(* fewer, for any commit text free of '/', '?' and newline.                *)
C5_FirstEightCharacters ==
    pc = "abbreviated" =>
        IF Len(flake.val.commit) >= 8
        THEN short.ok /\ short.val = Take(flake.val.commit, 8)
        ELSE ~short.ok

===========================================================================
